---- MODULE Spec2Model ----
(***************************************************************************)
(* OSDRP link-state routing simulation (src/python/osdrp_simulation.py and *)
(* src/python/performance_comparison.py): the Router class (create_lsu,    *)
(* process_lsu, calculate_routes), the simulated signature, the networkx   *)
(* Graph operations the routers use, and the convergence drivers.          *)
(***************************************************************************)
EXTENDS Integers, Sequences, FiniteSets, TLC

(***************************************************************************)
(* Bounds of the model.                                                    *)
(***************************************************************************)
\* highest sequence number a router originates / an injected LSU carries
MaxSeq == 2
\* last instant of the wall clock (seconds, as returned by time.time())
MaxTime == 2
\* largest jitter-free link cost of the base topology
MaxCost == 2

\* the node identifiers a topology.json may list; each has a key in PUBLIC_KEYS
Nodes == {"R0", "R1", "R2", "R3"}
\* the order in which topology.json lists them (G.add_nodes_from)
NodeOrder == <<"R0", "R1", "R2", "R3">>

\* the node identifiers of a topology.json with more routers than
\* lsu_rate_limit, in its order
ManyOrder ==
    <<"R0", "R1", "R2", "R3", "R4", "R5", "R6", "R7", "R8", "R9", "R10", "R11">>
ManyNodes == {ManyOrder[i] : i \in 1..Len(ManyOrder)}

\* a node that carries no 'seq' attribute (it was added by add_edge only)
NoSeq == 0 - 1
\* the modelled Router instances (routers = {node_id: Router(node_id, G)})
Routers == Nodes

\* Router.lsu_rate_limit and Router.lsu_window
lsu_rate_limit == 10
lsu_window == 1

(***************************************************************************)
(* networkx.Graph.  node: the nodes in insertion order (the keys of _node  *)
(* and _adj); seq: the 'seq' node attribute; adj: the neighbours of each   *)
(* node in insertion order (the keys of _adj[n]); cost: the edge attribute *)
(* shared by both directions of an edge, 0 where there is no edge.         *)
(***************************************************************************)
RECURSIVE SeqToSet(_)
SeqToSet(s) == IF s = <<>> THEN {} ELSE {Head(s)} \cup SeqToSet(Tail(s))

RECURSIVE Without(_, _)
Without(s, x) ==
    IF s = <<>> THEN <<>>
    ELSE IF Head(s) = x THEN Without(Tail(s), x)
         ELSE <<Head(s)>> \o Without(Tail(s), x)

InSeq(s, x) == \E i \in 1..Len(s) : s[i] = x

\* nx.Graph(), for the node identifiers of U
EmptyGraphOn(U) ==
    [node |-> <<>>,
     seq  |-> [n \in U |-> NoSeq],
     adj  |-> [n \in U |-> <<>>],
     cost |-> [e \in U \X U |-> 0]]

EmptyGraph == EmptyGraphOn(Nodes)

HasNode(g, n) == InSeq(g.node, n)

HasEdge(g, u, v) == InSeq(g.adj[u], v)

\* Graph.add_node(n, seq=s): a new node is appended, an old one keeps its
\* place; the attribute is set in both cases
add_node(g, n, s) ==
    [g EXCEPT !.node = IF HasNode(g, n) THEN @ ELSE Append(@, n),
              !.seq[n] = s]

\* Graph.add_node(n) without attributes, as add_edge does for a new endpoint
touch_node(g, n) ==
    [g EXCEPT !.node = IF HasNode(g, n) THEN @ ELSE Append(@, n)]

\* Graph.add_edge(u, v, cost=c)
add_edge(g, u, v, c) ==
    LET g1 == touch_node(touch_node(g, u), v)
        a1 == IF InSeq(g1.adj[u], v) THEN g1.adj[u] ELSE Append(g1.adj[u], v)
        g2 == [g1 EXCEPT !.adj[u] = a1]
        a2 == IF InSeq(g2.adj[v], u) THEN g2.adj[v] ELSE Append(g2.adj[v], u)
    IN  [g2 EXCEPT !.adj[v] = a2, !.cost[<<u, v>>] = c, !.cost[<<v, u>>] = c]

\* Graph.remove_edge(u, v) for an edge of the graph
remove_edge(g, u, v) ==
    LET g1 == [g EXCEPT !.adj[u] = Without(@, v)]
    IN  [g1 EXCEPT !.adj[v] = Without(@, u),
                   !.cost[<<u, v>>] = 0, !.cost[<<v, u>>] = 0]

\* Graph.remove_edges_from(ebunch): edges that are not in the graph are
\* silently skipped
RECURSIVE remove_edges_from(_, _)
remove_edges_from(g, es) ==
    IF es = <<>> THEN g
    ELSE LET e == Head(es)
             g1 == IF HasEdge(g, e[1], e[2]) THEN remove_edge(g, e[1], e[2])
                   ELSE g
         IN  remove_edges_from(g1, Tail(es))

\* list(Graph.edges(n)): the edges incident to n, in adjacency order
edges_of(g, n) == [i \in 1..Len(g.adj[n]) |-> <<n, g.adj[n][i]>>]

\* the set of undirected edges of a graph
EdgeSet(g) ==
    {{p[1], p[2]} : p \in {q \in (DOMAIN g.adj) \X (DOMAIN g.adj) : HasEdge(g, q[1], q[2])}}

\* the neighbours of n
Neighbours(g, n) == SeqToSet(g.adj[n])

\* Graph.copy(): the nodes are re-added in order, then every adjacency
\* entry (u, v) is re-added in iteration order (u in node order, v in the
\* order of u's adjacency), which can reorder adjacencies: in the copy the
\* neighbours of w are those that precede w in node order, in node order
\* (their entry (x, w) is re-added first), followed by the others in the
\* order of w's own adjacency
copy(g) ==
    LET pos(x) == CHOOSE i \in 1..Len(g.node) : g.node[i] = x
        adj_of(w) ==
            LET earlier(x) == HasEdge(g, x, w)
                later(x) == pos(x) >= pos(w)
            IN  SelectSeq(SubSeq(g.node, 1, pos(w) - 1), earlier)
                    \o SelectSeq(g.adj[w], later)
    IN  [node |-> g.node,
         seq  |-> g.seq,
         adj  |-> [w \in DOMAIN g.adj |-> IF HasNode(g, w) THEN adj_of(w) ELSE <<>>],
         cost |-> g.cost]

(***************************************************************************)
(* networkx.dijkstra_path / dijkstra_path_length (_dijkstra_multisource):  *)
(* the fringe is a heap of (distance, push counter, node), so among equal  *)
(* distances the entry pushed first is popped first; a node's path is      *)
(* replaced only by a strictly shorter one; neighbours are relaxed in      *)
(* adjacency order; the search stops when the target is popped.            *)
(***************************************************************************)
\* absent key of the dist / seen dictionaries
Unseen == 0 - 1

\* the fringe as a queue: the entry pushed first is popped first, whatever
\* its distance
MinIndex_fifo(fringe) == 1

\* index of the least (distance, counter) entry of the fringe
MinIndex(fringe) ==
    CHOOSE i \in 1..Len(fringe) :
        \A j \in 1..Len(fringe) :
            \/ fringe[i][1] < fringe[j][1]
            \/ fringe[i][1] = fringe[j][1] /\ fringe[i][2] <= fringe[j][2]

RemoveAt(s, i) == SubSeq(s, 1, i - 1) \o SubSeq(s, i + 1, Len(s))

\* the loop over G_succ[v].items() for the popped node v, from position j
RECURSIVE relax(_, _, _, _)
relax(g, v, st, j) ==
    IF j > Len(g.adj[v]) THEN st
    ELSE LET u == g.adj[v][j]
             vu_dist == st.dist[v] + g.cost[<<v, u>>]
         IN  IF st.dist[u] # Unseen THEN relax(g, v, st, j + 1)
             ELSE IF st.seen[u] = Unseen \/ vu_dist < st.seen[u]
                  THEN relax(g, v,
                             [st EXCEPT !.seen[u] = vu_dist,
                                        !.fringe = Append(@, <<vu_dist, st.c, u>>),
                                        !.c = @ + 1,
                                        !.paths[u] = Append(st.paths[v], u)],
                             j + 1)
                  ELSE relax(g, v, st, j + 1)

\* the while loop over the fringe
RECURSIVE dijkstra_loop(_, _, _)
dijkstra_loop(g, target, st) ==
    IF st.fringe = <<>> THEN st
    ELSE LET i == MinIndex(st.fringe)
             d == st.fringe[i][1]
             v == st.fringe[i][3]
             st1 == [st EXCEPT !.fringe = RemoveAt(@, i)]
         IN  IF st1.dist[v] # Unseen THEN dijkstra_loop(g, target, st1)
             ELSE LET st2 == [st1 EXCEPT !.dist[v] = d]
                  IN  IF v = target THEN st2
                      ELSE dijkstra_loop(g, target, relax(g, v, st2, 1))

dijkstra(g, source, target) ==
    dijkstra_loop(g, target,
        [dist   |-> [n \in DOMAIN g.adj |-> Unseen],
         seen   |-> [n \in DOMAIN g.adj |-> IF n = source THEN 0 ELSE Unseen],
         paths  |-> [n \in DOMAIN g.adj |-> IF n = source THEN <<source>> ELSE <<>>],
         fringe |-> <<<<0, 0, source>>>>,
         c      |-> 1])

\* nx.dijkstra_path: the path, or <<>> where NetworkXNoPath is raised
dijkstra_path(g, source, target) ==
    IF source = target THEN <<target>>
    ELSE LET st == dijkstra(g, source, target)
         IN  IF st.dist[target] = Unseen THEN <<>> ELSE st.paths[target]

\* nx.dijkstra_path_length, for a target that has a path
dijkstra_path_length(g, source, target) ==
    IF source = target THEN 0
    ELSE dijkstra(g, source, target).dist[target]

\* list(zip(path, path[1:]))
path_edges(path) == [i \in 1..(Len(path) - 1) |-> <<path[i], path[i + 1]>>]

\* round(x, 2): link costs are whole numbers here (OSPFRouter's max(1,
\* round(cost)) and whole jitter), which round(x, 2) returns unchanged
round2(x) == x

\* a destination without a key in routing_table; in an entry, backup_path
\* <<>> and backup_cost 0 stand for Python's None
NoRoute ==
    [next_hop |-> "", total_cost |-> 0, path |-> <<>>,
     backup_path |-> <<>>, backup_cost |-> 0]

\* route_entry that takes the first node of the path for the next hop
route_entry_hop(topo, id, target_node) ==
    LET primary_path == dijkstra_path(topo, id, target_node)
    IN  IF primary_path = <<>> THEN NoRoute
        ELSE LET primary_cost == dijkstra_path_length(topo, id, target_node)
                 topology_copy == remove_edges_from(copy(topo), path_edges(primary_path))
                 bp == dijkstra_path(topology_copy, id, target_node)
                 backup_cost == IF bp = <<>> THEN 0
                                ELSE dijkstra_path_length(topology_copy, id, target_node)
             IN  [next_hop    |-> primary_path[1],
                  total_cost  |-> round2(primary_cost),
                  path        |-> primary_path,
                  backup_path |-> bp,
                  backup_cost |-> IF backup_cost # 0 THEN round2(backup_cost) ELSE 0]

\* route_entry that removes only the first edge of the primary path from
\* the copy
route_entry_first_edge(topo, id, target_node) ==
    LET primary_path == dijkstra_path(topo, id, target_node)
    IN  IF primary_path = <<>> THEN NoRoute
        ELSE LET primary_cost == dijkstra_path_length(topo, id, target_node)
                 topology_copy ==
                     remove_edges_from(copy(topo), SubSeq(path_edges(primary_path), 1, 1))
                 bp == dijkstra_path(topology_copy, id, target_node)
                 backup_cost == IF bp = <<>> THEN 0
                                ELSE dijkstra_path_length(topology_copy, id, target_node)
             IN  [next_hop    |-> primary_path[2],
                  total_cost  |-> round2(primary_cost),
                  path        |-> primary_path,
                  backup_path |-> bp,
                  backup_cost |-> IF backup_cost # 0 THEN round2(backup_cost) ELSE 0]

\* the routing table entry calculate_routes stores for target_node, NoRoute
\* where dijkstra_path raises NetworkXNoPath
route_entry(topo, id, target_node) ==
    LET primary_path == dijkstra_path(topo, id, target_node)
    IN  IF primary_path = <<>> THEN NoRoute
        ELSE LET primary_cost == dijkstra_path_length(topo, id, target_node)
                 topology_copy == remove_edges_from(copy(topo), path_edges(primary_path))
                 bp == dijkstra_path(topology_copy, id, target_node)
                 backup_cost == IF bp = <<>> THEN 0
                                ELSE dijkstra_path_length(topology_copy, id, target_node)
             IN  [next_hop    |-> primary_path[2],
                  total_cost  |-> round2(primary_cost),
                  path        |-> primary_path,
                  backup_path |-> bp,
                  backup_cost |-> IF backup_cost # 0 THEN round2(backup_cost) ELSE 0]

\* Router.calculate_routes: the new routing table of router id
routes_of(topo, id) ==
    [t \in DOMAIN topo.seq |->
        IF HasNode(topo, t) /\ t # id THEN route_entry(topo, id, t) ELSE NoRoute]

(***************************************************************************)
(* Signature simulation.  hash() is taken to be collision free: the tag is *)
(* the pair of the message text and the key it was computed with.          *)
(***************************************************************************)
PUBLIC_KEYS == [n \in ManyNodes |-> <<"key", n>>]

sign_message(message, source_id) == [msg |-> message, key |-> PUBLIC_KEYS[source_id]]

verify_signature(message, signature, source_id) ==
    signature = sign_message(message, source_id)

\* no LSU has been created yet
NoLsu ==
    [data |-> [source_id |-> "", sequence_number |-> 0, links |-> <<>>],
     signature |-> [msg |-> [source_id |-> "", sequence_number |-> 0, links |-> <<>>],
                    key |-> <<>>]]

(***************************************************************************)
(* State.                                                                  *)
(***************************************************************************)
VARIABLES
    G,                \* the module-level base topology (shared by the routers)
    now,              \* time.time()
    sequence_number,  \* Router.sequence_number, per router
    topology,         \* Router.topology, per router
    routing_table,    \* Router.routing_table, per router
    lsu_timestamps,   \* Router.lsu_timestamps, per router
    lsu,              \* the LSU most recently returned by create_lsu
    out,              \* the last call: operation, router, the LSU's fields,
                      \* return value, return statement
    last_links,       \* history: links of the LSU last accepted, per router and source
    accept_log,       \* history: number of LSUs accepted, per router and instant
    calls,            \* history: number of calls the harness has made
    drv               \* run_simulation: where it stands (phase, round, the
                      \* originating router i and the receiving router j)

vars == <<G, now, sequence_number, topology, routing_table, lsu_timestamps,
          lsu, out, last_links, accept_log, calls, drv>>

Call(op, router, l, ret, why) ==
    [op |-> op, router |-> router, source_id |-> l.data.source_id,
     sequence_number |-> l.data.sequence_number, links |-> l.data.links,
     signature |-> l.signature, ret |-> ret, why |-> why]

NoCall == Call("none", "", NoLsu, FALSE, "")

\* the base topology of the harness: the triangle R0-R1, R1-R2, R0-R2 with
\* jitter-free costs 1, 1 and MaxCost
Triangle ==
    add_edge(add_edge(add_edge(
        touch_node(touch_node(touch_node(EmptyGraph, "R0"), "R1"), "R2"),
        "R0", "R1", 1), "R1", "R2", 1), "R0", "R2", MaxCost)

\* Router.__init__ for every router of U, and the module-level state
InitRoutersOn(U) ==
    /\ now = 0
    /\ sequence_number = [r \in U |-> 0]
    /\ topology = [r \in U |-> EmptyGraphOn(U)]
    /\ routing_table = [r \in U |-> [t \in U |-> NoRoute]]
    /\ lsu_timestamps = [r \in U |-> <<>>]
    /\ lsu = NoLsu
    /\ out = NoCall
    /\ last_links = [r \in U |-> [n \in U |-> <<>>]]
    /\ accept_log = [r \in U |-> [t \in 0..MaxTime |-> 0]]
    /\ calls = 0

InitRouters == InitRoutersOn(Routers)

\* no driver is running: the routers are called directly
Idle == [pc |-> "idle", round |-> 0, i |-> 0, j |-> 0]

Init == G = Triangle /\ InitRouters /\ drv = Idle

(***************************************************************************)
(* Router.create_lsu                                                       *)
(***************************************************************************)
\* Router.calculate_link_cost: the jitter-free cost of the link plus the
\* jitter drawn for this call
calculate_link_cost(graph, id, neighbor_id, jitter) ==
    graph.cost[<<id, neighbor_id>>] + jitter

\* links_data: one entry per neighbour of the base topology, in its order
links_data(graph, id, jit) ==
    [i \in 1..Len(graph.adj[id]) |->
        <<graph.adj[id][i],
          calculate_link_cost(graph, id, graph.adj[id][i], jit[graph.adj[id][i]])>>]

\* the LSU create_lsu returns for the router's new sequence number seqno
made_lsu(graph, id, seqno, jit) ==
    LET lsu_data == [source_id |-> id, sequence_number |-> seqno,
                     links |-> links_data(graph, id, jit)]
    IN  [data |-> lsu_data, signature |-> sign_message(lsu_data, id)]

\* create_lsu that stamps the LSU before advancing the counter
create_lsu_late(id, jit) ==
    /\ sequence_number' = [sequence_number EXCEPT ![id] = @ + 1]
    /\ lsu' = made_lsu(G, id, sequence_number[id], jit)
    /\ out' = Call("create_lsu", id, lsu', TRUE, "")
    /\ UNCHANGED <<G, now, topology, routing_table, lsu_timestamps,
                   last_links, accept_log>>

\* create_lsu that also enters the router into its own topology
create_lsu_active(id, jit) ==
    /\ sequence_number' = [sequence_number EXCEPT ![id] = @ + 1]
    /\ lsu' = made_lsu(G, id, sequence_number[id] + 1, jit)
    /\ out' = Call("create_lsu", id, lsu', TRUE, "")
    /\ topology' = [topology EXCEPT ![id] = touch_node(@, id)]
    /\ UNCHANGED <<G, now, routing_table, lsu_timestamps, last_links, accept_log>>

create_lsu(id, jit) ==
    /\ sequence_number' = [sequence_number EXCEPT ![id] = @ + 1]
    /\ lsu' = made_lsu(G, id, sequence_number[id] + 1, jit)
    /\ out' = Call("create_lsu", id, lsu', TRUE, "")
    /\ UNCHANGED <<G, now, topology, routing_table, lsu_timestamps,
                   last_links, accept_log>>

(***************************************************************************)
(* Router.process_lsu                                                      *)
(***************************************************************************)
\* evict with the window test written < instead of <=
RECURSIVE evict_strict(_, _)
evict_strict(ts, current_time) ==
    IF ts = <<>> THEN <<>>
    ELSE IF current_time - Head(ts) < lsu_window
         THEN <<Head(ts)>> \o evict_strict(Tail(ts), current_time)
         ELSE evict_strict(Tail(ts), current_time)

\* [t for t in lsu_timestamps if current_time - t <= lsu_window]
RECURSIVE evict(_, _)
evict(ts, current_time) ==
    IF ts = <<>> THEN <<>>
    ELSE IF current_time - Head(ts) <= lsu_window
         THEN <<Head(ts)>> \o evict(Tail(ts), current_time)
         ELSE evict(Tail(ts), current_time)

\* topology.nodes[source_id].get('seq', 0)
stored_seq(topo, source_id) ==
    IF topo.seq[source_id] = NoSeq THEN 0 ELSE topo.seq[source_id]

\* the loop over data['links'].items()
RECURSIVE add_links(_, _, _)
add_links(topo, source_id, links) ==
    IF links = <<>> THEN topo
    ELSE add_links(add_edge(topo, source_id, Head(links)[1], Head(links)[2]),
                   source_id, Tail(links))

\* accept_topology with the new links merged into the old ones
accept_topology_merge(topo, data) ==
    add_links(add_node(topo, data.source_id, data.sequence_number),
              data.source_id, data.links)

\* lines 106-111: the topology after an accepted LSU
accept_topology(topo, data) ==
    LET source_id == data.source_id
        t1 == add_node(topo, source_id, data.sequence_number)
        old_edges == edges_of(t1, source_id)
        t2 == remove_edges_from(t1, old_edges)
    IN  add_links(t2, source_id, data.links)

\* verdict with the freshness test written > instead of >=
verdict_gt(id, l) ==
    LET ts == evict(lsu_timestamps[id], now)
        data == l.data
        source_id == data.source_id
    IN  IF Len(ts) >= lsu_rate_limit THEN "RateLimited"
        ELSE IF ~verify_signature(data, l.signature, source_id) THEN "InvalidTag"
        ELSE IF /\ HasNode(topology[id], source_id)
                /\ stored_seq(topology[id], source_id) > data.sequence_number
             THEN "Stale"
        ELSE "Accepted"

\* verdict without the freshness test
verdict_nostale(id, l) ==
    LET ts == evict(lsu_timestamps[id], now)
    IN  IF Len(ts) >= lsu_rate_limit THEN "RateLimited"
        ELSE IF ~verify_signature(l.data, l.signature, l.data.source_id)
             THEN "InvalidTag"
        ELSE "Accepted"

\* verdict with the tag verified before the rate limiter is consulted
verdict_tag_first(id, l) ==
    LET ts == evict(lsu_timestamps[id], now)
        data == l.data
        source_id == data.source_id
    IN  IF ~verify_signature(data, l.signature, source_id) THEN "InvalidTag"
        ELSE IF Len(ts) >= lsu_rate_limit THEN "RateLimited"
        ELSE IF /\ HasNode(topology[id], source_id)
                /\ stored_seq(topology[id], source_id) >= data.sequence_number
             THEN "Stale"
        ELSE "Accepted"

\* which return statement process_lsu reaches for this LSU
verdict(id, l) ==
    LET ts == evict(lsu_timestamps[id], now)
        data == l.data
        source_id == data.source_id
    IN  IF Len(ts) >= lsu_rate_limit THEN "RateLimited"
        ELSE IF ~verify_signature(data, l.signature, source_id) THEN "InvalidTag"
        ELSE IF /\ HasNode(topology[id], source_id)
                /\ stored_seq(topology[id], source_id) >= data.sequence_number
             THEN "Stale"
        ELSE "Accepted"

\* process_lsu that records the timestamp of every LSU it is handed, the
\* rejected ones included
process_lsu_stamp_all(id, l) ==
    LET ts == evict(lsu_timestamps[id], now)
        why == verdict(id, l)
    IN  /\ out' = Call("process_lsu", id, l, why = "Accepted", why)
        /\ lsu_timestamps' = [lsu_timestamps EXCEPT ![id] = Append(ts, now)]
        /\ IF why = "Accepted"
           THEN /\ topology' = [topology EXCEPT ![id] = accept_topology(@, l.data)]
                /\ last_links' = [last_links EXCEPT ![id][l.data.source_id] = l.data.links]
                /\ accept_log' = [accept_log EXCEPT ![id][now] = @ + 1]
           ELSE UNCHANGED <<topology, last_links, accept_log>>
        /\ UNCHANGED <<G, now, sequence_number, routing_table, lsu>>

\* process_lsu over one lsu_timestamps list shared by all Router instances
\* (a class attribute instead of the instance attribute of line 64)
process_lsu_shared(id, l) ==
    LET ts == evict(lsu_timestamps[id], now)
        why == verdict(id, l)
    IN  /\ out' = Call("process_lsu", id, l, why = "Accepted", why)
        /\ IF why = "Accepted"
           THEN /\ lsu_timestamps' = [r \in Routers |-> Append(ts, now)]
                /\ topology' = [topology EXCEPT ![id] = accept_topology(@, l.data)]
                /\ last_links' = [last_links EXCEPT ![id][l.data.source_id] = l.data.links]
                /\ accept_log' = [accept_log EXCEPT ![id][now] = @ + 1]
           ELSE /\ lsu_timestamps' = [r \in Routers |-> ts]
                /\ UNCHANGED <<topology, last_links, accept_log>>
        /\ UNCHANGED <<G, now, sequence_number, routing_table, lsu>>

process_lsu(id, l) ==
    LET ts == evict(lsu_timestamps[id], now)
        why == verdict(id, l)
    IN  /\ out' = Call("process_lsu", id, l, why = "Accepted", why)
        /\ IF why = "Accepted"
           THEN /\ lsu_timestamps' = [lsu_timestamps EXCEPT ![id] = Append(ts, now)]
                /\ topology' = [topology EXCEPT ![id] = accept_topology(@, l.data)]
                /\ last_links' = [last_links EXCEPT ![id][l.data.source_id] = l.data.links]
                /\ accept_log' = [accept_log EXCEPT ![id][now] = @ + 1]
           ELSE /\ lsu_timestamps' = [lsu_timestamps EXCEPT ![id] = ts]
                /\ UNCHANGED <<topology, last_links, accept_log>>
        /\ UNCHANGED <<G, now, sequence_number, routing_table, lsu>>

(***************************************************************************)
(* Router.calculate_routes                                                 *)
(***************************************************************************)
\* the graph with every adjacency list read backwards
Reversed(g) ==
    [g EXCEPT !.adj = [n \in Nodes |->
        [i \in 1..Len(g.adj[n]) |-> g.adj[n][Len(g.adj[n]) + 1 - i]]]]

\* calculate_routes over adjacencies whose iteration order is not stable
\* from one call to the next
calculate_routes_unordered(id) ==
    /\ \E g \in {topology[id], Reversed(topology[id])} :
          routing_table' =
             IF ~HasNode(topology[id], id) THEN routing_table
             ELSE [routing_table EXCEPT ![id] = routes_of(g, id)]
    /\ out' = Call("calculate_routes", id, NoLsu, HasNode(topology[id], id), "")
    /\ UNCHANGED <<G, now, sequence_number, topology, lsu_timestamps, lsu,
                   last_links, accept_log>>

\* calculate_routes without line 119 (self.routing_table = {}): the entries
\* of destinations without a path stay as they were
calculate_routes_keep(id) ==
    /\ routing_table' =
          IF ~HasNode(topology[id], id) THEN routing_table
          ELSE [routing_table EXCEPT ![id] =
                  [t \in Nodes |->
                      IF routes_of(topology[id], id)[t] = NoRoute THEN @[t]
                      ELSE routes_of(topology[id], id)[t]]]
    /\ out' = Call("calculate_routes", id, NoLsu, HasNode(topology[id], id), "")
    /\ UNCHANGED <<G, now, sequence_number, topology, lsu_timestamps, lsu,
                   last_links, accept_log>>

calculate_routes(id) ==
    /\ routing_table' =
          IF ~HasNode(topology[id], id) THEN routing_table
          ELSE [routing_table EXCEPT ![id] = routes_of(topology[id], id)]
    /\ out' = Call("calculate_routes", id, NoLsu, HasNode(topology[id], id), "")
    /\ UNCHANGED <<G, now, sequence_number, topology, lsu_timestamps, lsu,
                   last_links, accept_log>>

(***************************************************************************)
(* The clock and the failure injector.                                     *)
(***************************************************************************)
\* time passes between two calls
Tick ==
    /\ now < MaxTime
    /\ now' = now + 1
    /\ UNCHANGED <<G, sequence_number, topology, routing_table, lsu_timestamps,
                   lsu, out, last_links, accept_log>>

\* break_n_random_links: graph.remove_edge(*edge) for a sampled edge
break_link(u, v) ==
    /\ HasEdge(G, u, v)
    /\ G' = remove_edge(G, u, v)
    /\ out' = Call("break_link", "", NoLsu, TRUE, "")
    /\ UNCHANGED <<now, sequence_number, topology, routing_table, lsu_timestamps,
                   lsu, last_links, accept_log>>

(***************************************************************************)
(* The harness: any router of the triangle may originate; the routers of   *)
(* Receivers may receive the LSU in flight, or what an attacker or a slow  *)
(* link makes of it, and recompute their routes, in any order; a link may  *)
(* fail.  A run makes at most MaxCalls calls.                              *)
(***************************************************************************)
\* the routers whose process_lsu and calculate_routes the harness calls
Receivers == {"R0"}

\* jitter values of one calculate_link_cost call
Jitter == {0, 1}

\* number of links the failure injector may break
MaxBreaks == 1

\* number of calls the harness makes in one run
MaxCalls == 5

\* the same payload under the tag of another router's key
wrong_key(l) ==
    {[l EXCEPT !.signature = sign_message(l.data, k)] :
        k \in Nodes \ {l.data.source_id}}

\* the LSU the same source originated before this one, arriving late
older(l) ==
    IF l.data.sequence_number <= 1 THEN {}
    ELSE LET d == [l.data EXCEPT !.sequence_number = @ - 1]
         IN  {[data |-> d, signature |-> sign_message(d, d.source_id)]}

\* the payload altered in transit (sequence number raised), the tag kept
altered(l) == {[l EXCEPT !.data.sequence_number = @ + 1]}

\* the LSUs a router may be handed while l is in flight
Variants(l) == {l} \cup wrong_key(l) \cup older(l) \cup altered(l)

Broken == Cardinality(EdgeSet(Triangle)) - Cardinality(EdgeSet(G))

Originate ==
    \E id \in SeqToSet(G.node) :
        /\ sequence_number[id] < MaxSeq
        /\ \E jit \in [Neighbours(G, id) -> Jitter] : create_lsu(id, jit)

Receive == lsu # NoLsu /\ \E id \in Receivers, l \in Variants(lsu) : process_lsu(id, l)

Compute == \E id \in Receivers : calculate_routes(id)

Break == \E u \in Nodes, v \in Nodes : Broken < MaxBreaks /\ break_link(u, v)

\* one more call of the harness
Counted == calls < MaxCalls /\ calls' = calls + 1 /\ UNCHANGED drv

Next ==
    \/ Counted /\ Originate
    \/ Counted /\ Receive
    \/ Counted /\ Compute
    \/ Counted /\ Break

Spec == Init /\ [][Next]_vars

(***************************************************************************)
(* The burst: R1 originates LSU after LSU, R0 is handed each of them (or   *)
(* what an attacker or a slow link makes of it) while time passes.         *)
(***************************************************************************)
\* number of LSUs R1 originates in the burst
MaxBurst == 11

OriginateBurst ==
    /\ sequence_number["R1"] < MaxBurst
    /\ create_lsu("R1", [n \in Neighbours(G, "R1") |-> 0])

ReceiveBurst == lsu # NoLsu /\ \E l \in Variants(lsu) : process_lsu("R0", l)

NextRate ==
    \/ OriginateBurst /\ UNCHANGED <<calls, drv>>
    \/ ReceiveBurst /\ UNCHANGED <<calls, drv>>
    \/ Tick /\ UNCHANGED <<calls, drv>>

SpecRate == Init /\ [][NextRate]_vars

(***************************************************************************)
(* Route computation over every small database: the base topology is any   *)
(* weighted graph on the four nodes, every router has originated its first *)
(* LSU without jitter and R0 has accepted them in one of AcceptOrders;     *)
(* R0 then computes its routes MaxRuns times.                              *)
(***************************************************************************)
\* the links topology.json may list, in its order
EdgeOrder ==
    <<<<"R0", "R1">>, <<"R0", "R2">>, <<"R0", "R3">>,
      <<"R1", "R2">>, <<"R1", "R3">>, <<"R2", "R3">>>>

\* number of consecutive calculate_routes calls
MaxRuns == 2

\* the orders in which R0 is handed the LSUs: every router's, R0's own
\* included (run_protocol_simulation); the other routers' (run_simulation);
\* every router's in reverse
AcceptOrders ==
    {<<"R0", "R1", "R2", "R3">>, <<"R1", "R2", "R3">>, <<"R3", "R2", "R1", "R0">>}

\* G as built from topology.json: the nodes, then the links with a cost
RECURSIVE BaseGraph(_, _)
BaseGraph(w, i) ==
    IF i = 0
    THEN touch_node(touch_node(touch_node(touch_node(EmptyGraph,
             "R0"), "R1"), "R2"), "R3")
    ELSE LET g == BaseGraph(w, i - 1)
         IN  IF w[i] = 0 THEN g
             ELSE add_edge(g, EdgeOrder[i][1], EdgeOrder[i][2], w[i])

NoJitter == [n \in ManyNodes |-> 0]

\* R0's topology after it accepted the first LSU of order[1..k]
RECURSIVE Flooded(_, _, _)
Flooded(graph, order, k) ==
    IF k = 0 THEN EmptyGraph
    ELSE accept_topology(Flooded(graph, order, k - 1),
                         made_lsu(graph, order[k], 1, NoJitter).data)

InitRoutes ==
    \E w \in [1..Len(EdgeOrder) -> 0..MaxCost], order \in AcceptOrders :
        LET last == made_lsu(BaseGraph(w, Len(EdgeOrder)), order[Len(order)], 1, NoJitter)
        IN  /\ G = BaseGraph(w, Len(EdgeOrder))
            /\ now = 0
            /\ sequence_number = [r \in Routers |-> 1]
            /\ topology = [r \in Routers |->
                  IF r = "R0" THEN Flooded(G, order, Len(order)) ELSE EmptyGraph]
            /\ routing_table = [r \in Routers |-> [t \in Nodes |-> NoRoute]]
            /\ lsu_timestamps = [r \in Routers |->
                  IF r = "R0" THEN [i \in 1..Len(order) |-> 0] ELSE <<>>]
            /\ lsu = last
            /\ out = Call("process_lsu", "R0", last, TRUE, "Accepted")
            /\ last_links = [r \in Routers |-> [n \in Nodes |->
                  IF r = "R0" /\ InSeq(order, n)
                  THEN made_lsu(G, n, 1, NoJitter).data.links ELSE <<>>]]
            /\ accept_log = [r \in Routers |-> [t \in 0..MaxTime |->
                  IF r = "R0" /\ t = 0 THEN Len(order) ELSE 0]]
            /\ calls = 0
            /\ drv = Idle

NextRoutes ==
    /\ calls < MaxRuns
    /\ calls' = calls + 1
    /\ calculate_routes("R0")
    /\ UNCHANGED drv

SpecRoutes == InitRoutes /\ [][NextRoutes]_vars

(***************************************************************************)
(* run_simulation, initial convergence (lines 166-178): len(routers)       *)
(* rounds; in each, every router in turn creates an LSU and every other    *)
(* router processes it and recomputes its routes if it accepted; then      *)
(* every router recomputes once more.  Time may pass between two calls.    *)
(***************************************************************************)
\* routers = {node_id: Router(node_id, G) for node_id in G.nodes()}: the
\* routers in the order of G's nodes
RouterAt(k) == G.node[k]

NumRouters == Len(G.node)

\* the next receiver after position j of the inner loop, skipping the
\* originator; NumRouters + 1 when the loop is over
NextReceiver(i, j) ==
    IF j + 1 = i THEN j + 2 ELSE j + 1

\* where the driver stands once receiver j is done with the LSU of i
After(d) ==
    LET j1 == NextReceiver(d.i, d.j)
    IN  IF j1 <= NumRouters THEN [d EXCEPT !.pc = "deliver", !.j = j1]
        ELSE IF d.i < NumRouters
             THEN [d EXCEPT !.pc = "originate", !.i = d.i + 1, !.j = 0]
        ELSE IF d.round + 1 < NumRouters
             THEN [d EXCEPT !.pc = "originate", !.round = d.round + 1, !.i = 1, !.j = 0]
        ELSE [d EXCEPT !.pc = "final", !.round = d.round + 1, !.i = 0, !.j = 1]

\* line 171: lsu = router.create_lsu()
sim_originate(jitters) ==
    /\ drv.pc = "originate"
    /\ \E jit \in [Neighbours(G, RouterAt(drv.i)) -> jitters] :
          create_lsu(RouterAt(drv.i), jit)
    /\ drv' = After(drv)

\* line 174: neighbor_router.process_lsu(lsu)
sim_deliver ==
    /\ drv.pc = "deliver"
    /\ process_lsu(RouterAt(drv.j), lsu)
    /\ drv' = IF out'.ret THEN [drv EXCEPT !.pc = "recompute"] ELSE After(drv)

\* line 175: neighbor_router.calculate_routes()
sim_recompute ==
    /\ drv.pc = "recompute"
    /\ calculate_routes(RouterAt(drv.j))
    /\ drv' = After(drv)

\* lines 177-178: every router recomputes
sim_final ==
    /\ drv.pc = "final"
    /\ calculate_routes(RouterAt(drv.j))
    /\ drv' = IF drv.j < NumRouters THEN [drv EXCEPT !.j = drv.j + 1]
              ELSE [drv EXCEPT !.pc = "done", !.j = 0]

\* Scenario A: the path R0 - R1 - R2 with both costs 1
Path3 ==
    add_edge(add_edge(
        touch_node(touch_node(touch_node(EmptyGraph, "R0"), "R1"), "R2"),
        "R0", "R1", 1), "R1", "R2", 1)

SimStart == [pc |-> "originate", round |-> 0, i |-> 1, j |-> 0]

InitA == G = Path3 /\ InitRouters /\ drv = SimStart

NextA ==
    \/ sim_originate({0}) /\ UNCHANGED calls
    \/ sim_deliver /\ UNCHANGED calls
    \/ sim_recompute /\ UNCHANGED calls
    \/ sim_final /\ UNCHANGED calls
    \/ Tick /\ UNCHANGED <<calls, drv>>

SpecA == InitA /\ [][NextA]_vars

(***************************************************************************)
(* run_protocol_simulation (performance_comparison.py, lines 35-78): the   *)
(* initial convergence, len(routers) rounds in which every router creates  *)
(* an LSU and then every router processes every LSU of the round, its own  *)
(* included, recomputing after each one it accepts; then the failure edge  *)
(* is removed and, in each of the re-convergence rounds, its two endpoints *)
(* create an LSU and every router processes both and recomputes once if it *)
(* accepted one.  Time may pass between two rounds.                        *)
(***************************************************************************)
\* for _ in range(3), line 59
reconvergence_rounds == 3

NoCounts == [r \in SeqToSet(G.node) |-> 0]

\* the driver before its first round.  lsus: the LSUs of the round;
\* changed: topology_changed; initial: R0's routing table when line 47 read
\* it; failed: failed_link_originators; accepted, computed: history, the
\* number of LSUs each router accepted and of calculate_routes calls made
\* on it in the round
ProtoStart ==
    [pc |-> "create", phase |-> "initial", round |-> 0, i |-> 1, j |-> 0, k |-> 0,
     lsus |-> <<>>, changed |-> FALSE, initial |-> [t \in Nodes |-> NoRoute],
     failed |-> <<>>, accepted |-> NoCounts, computed |-> NoCounts]

\* the routers that create an LSU in a round
Originators(d) == IF d.phase = "initial" THEN G.node ELSE d.failed

\* the number of rounds of the phase
Rounds(d) == IF d.phase = "initial" THEN NumRouters ELSE reconvergence_rounds

\* where the driver stands once router j is done with LSU k
proto_after(d) ==
    IF d.k < Len(d.lsus) THEN [d EXCEPT !.pc = "process", !.k = d.k + 1]
    ELSE IF d.j < NumRouters
         THEN [d EXCEPT !.pc = "process", !.j = d.j + 1, !.k = 1, !.changed = FALSE]
    ELSE IF d.round + 1 < Rounds(d)
         THEN [d EXCEPT !.pc = "create", !.round = d.round + 1, !.i = 1, !.j = 0,
                        !.k = 0, !.lsus = <<>>, !.changed = FALSE,
                        !.accepted = NoCounts, !.computed = NoCounts]
    ELSE [d EXCEPT !.pc = IF d.phase = "initial" THEN "fail" ELSE "done",
                   !.round = d.round + 1, !.j = 0, !.k = 0]

\* lines 40 and 60: the next router.create_lsu() of the list comprehension
proto_create ==
    /\ drv.pc = "create"
    /\ create_lsu(Originators(drv)[drv.i], NoJitter)
    /\ drv' = IF drv.i < Len(Originators(drv))
              THEN [drv EXCEPT !.i = drv.i + 1, !.lsus = Append(@, lsu')]
              ELSE [drv EXCEPT !.pc = "process", !.lsus = Append(@, lsu'),
                               !.j = 1, !.k = 1, !.changed = FALSE]

\* proto_process without lines 67-68: in the re-convergence no router
\* recomputes
proto_process_norecompute ==
    /\ drv.pc = "process"
    /\ process_lsu(RouterAt(drv.j), drv.lsus[drv.k])
    /\ LET d == [drv EXCEPT !.changed = @ \/ out'.ret,
                            !.accepted[RouterAt(drv.j)] = @ + (IF out'.ret THEN 1 ELSE 0)]
       IN  drv' = IF d.phase = "initial" /\ out'.ret
                  THEN [d EXCEPT !.pc = "recompute"] ELSE proto_after(d)

\* proto_process with the re-convergence written as the initial
\* convergence: an accepting router recomputes at once
proto_process_eager ==
    /\ drv.pc = "process"
    /\ process_lsu(RouterAt(drv.j), drv.lsus[drv.k])
    /\ LET d == [drv EXCEPT !.changed = @ \/ out'.ret,
                            !.accepted[RouterAt(drv.j)] = @ + (IF out'.ret THEN 1 ELSE 0)]
       IN  drv' = IF out'.ret THEN [d EXCEPT !.pc = "recompute"] ELSE proto_after(d)

\* lines 43 and 64: router.process_lsu(lsu); in the initial convergence an
\* accepting router recomputes at once (line 44), in the re-convergence it
\* recomputes after the last LSU of the round if it accepted one (line 67)
proto_process ==
    /\ drv.pc = "process"
    /\ process_lsu(RouterAt(drv.j), drv.lsus[drv.k])
    /\ LET d == [drv EXCEPT !.changed = @ \/ out'.ret,
                            !.accepted[RouterAt(drv.j)] = @ + (IF out'.ret THEN 1 ELSE 0)]
       IN  drv' = IF d.phase = "initial"
                  THEN IF out'.ret THEN [d EXCEPT !.pc = "recompute"] ELSE proto_after(d)
                  ELSE IF d.k = Len(d.lsus) /\ d.changed
                       THEN [d EXCEPT !.pc = "recompute"] ELSE proto_after(d)

\* proto_recompute that recomputes the first router, whichever accepted
proto_recompute_first ==
    /\ drv.pc = "recompute"
    /\ calculate_routes(RouterAt(1))
    /\ drv' = proto_after([drv EXCEPT !.computed[RouterAt(drv.j)] = @ + 1])

\* lines 44 and 68: router.calculate_routes()
proto_recompute ==
    /\ drv.pc = "recompute"
    /\ calculate_routes(RouterAt(drv.j))
    /\ drv' = proto_after([drv EXCEPT !.computed[RouterAt(drv.j)] = @ + 1])

\* lines 47-54: R0's table is read, sim_graph.remove_edge(u, v),
\* failed_link_originators = [u, v]; the failure edge is a link of the
\* graph, named as topology.json lists it
proto_fail ==
    /\ drv.pc = "fail"
    /\ \E e \in 1..Len(EdgeOrder) :
          LET u == EdgeOrder[e][1]
              v == EdgeOrder[e][2]
          IN
          /\ break_link(u, v)
          /\ drv' = [drv EXCEPT !.pc = "create", !.phase = "failure", !.round = 0,
                                !.i = 1, !.lsus = <<>>, !.failed = <<u, v>>,
                                !.initial = routing_table["R0"],
                                !.accepted = NoCounts, !.computed = NoCounts]

\* the driver stands between two rounds
BetweenRounds ==
    \/ drv.pc = "fail"
    \/ drv.pc = "create" /\ drv.i = 1 /\ (drv.phase = "failure" \/ drv.round > 0)

\* the base graphs handed to run_protocol_simulation
\* (every graph on the four nodes with links of cost 1, the link R0 - R1 of
\* any cost up to MaxCost + 1)
ProtoBases ==
    {BaseGraph(w, Len(EdgeOrder)) :
        w \in {x \in [1..Len(EdgeOrder) -> 0..(MaxCost + 1)] :
                  \A i \in 2..Len(EdgeOrder) : x[i] <= 1}}

\* line 36: sim_graph = graph.copy()
InitProto ==
    /\ \E graph \in ProtoBases : G = copy(graph)
    /\ InitRouters
    /\ drv = ProtoStart

NextProto ==
    \/ proto_create /\ UNCHANGED calls
    \/ proto_process /\ UNCHANGED calls
    \/ proto_recompute /\ UNCHANGED calls
    \/ proto_fail /\ UNCHANGED calls
    \/ BetweenRounds /\ Tick /\ UNCHANGED <<calls, drv>>

SpecProto == InitProto /\ [][NextProto]_vars

(***************************************************************************)
(* The harness with every router of the triangle receiving: any router may *)
(* originate (without jitter), any router may be handed the LSU in flight  *)
(* or what an attacker or a slow link makes of it, and recompute.          *)
(***************************************************************************)
OriginateFixed ==
    \E id \in SeqToSet(G.node) :
        sequence_number[id] < MaxSeq /\ create_lsu(id, NoJitter)

ReceiveAll ==
    lsu # NoLsu /\ \E id \in SeqToSet(G.node), l \in Variants(lsu) : process_lsu(id, l)

ComputeAll == \E id \in SeqToSet(G.node) : calculate_routes(id)

NextAll ==
    \/ Counted /\ OriginateFixed
    \/ Counted /\ ReceiveAll
    \/ Counted /\ ComputeAll

SpecAll == Init /\ [][NextAll]_vars

(***************************************************************************)
(* The burst with route computation: as the burst, and R0 may recompute    *)
(* its routes between two LSUs.                                            *)
(***************************************************************************)
ComputeBurst == calculate_routes("R0")

NextReject ==
    \/ OriginateBurst /\ UNCHANGED <<calls, drv>>
    \/ ReceiveBurst /\ UNCHANGED <<calls, drv>>
    \/ ComputeBurst /\ UNCHANGED <<calls, drv>>
    \/ Tick /\ UNCHANGED <<calls, drv>>

SpecReject == Init /\ [][NextReject]_vars

(***************************************************************************)
(* run_protocol_simulation without a failure edge (as for the path-cost    *)
(* comparison, lines 114-115) on a line of more routers than               *)
(* lsu_rate_limit: R0 - R1 - ... - R11, every link of cost 1.              *)
(***************************************************************************)
\* G.add_nodes_from(topology_data['nodes'])
RECURSIVE ManyTouched(_)
ManyTouched(i) ==
    IF i = 0 THEN EmptyGraphOn(ManyNodes)
    ELSE touch_node(ManyTouched(i - 1), ManyOrder[i])

\* the nodes, then the links ManyOrder[1] - ManyOrder[2], ... up to link i
RECURSIVE ManyLine(_)
ManyLine(i) ==
    IF i = 0 THEN ManyTouched(Len(ManyOrder))
    ELSE add_edge(ManyLine(i - 1), ManyOrder[i], ManyOrder[i + 1], 1)

\* lines 49-50: if not failure_edge: return
proto_return ==
    /\ drv.pc = "fail"
    /\ drv' = [drv EXCEPT !.pc = "done"]
    /\ UNCHANGED <<G, now, sequence_number, topology, routing_table, lsu_timestamps,
                   lsu, out, last_links, accept_log>>

InitMany ==
    /\ G = copy(ManyLine(Len(ManyOrder) - 1))
    /\ InitRoutersOn(ManyNodes)
    /\ drv = ProtoStart

NextMany ==
    \/ proto_create /\ UNCHANGED calls
    \/ proto_process /\ UNCHANGED calls
    \/ proto_recompute /\ UNCHANGED calls
    \/ proto_return /\ UNCHANGED calls
    \/ BetweenRounds /\ Tick /\ UNCHANGED <<calls, drv>>

SpecMany == InitMany /\ [][NextMany]_vars

(***************************************************************************)
(* Properties of the acceptance protocol.                                  *)
(***************************************************************************)
\* the step is a call of op on router id (every step but Tick is a call,
\* and out' describes it)
Called(op, id) == now' = now /\ out'.op = op /\ out'.router = id

\* the neighbours a link list names
LinkNodes(links) == {links[i][1] : i \in 1..Len(links)}

\* the payload of the LSU of a call
DataOf(c) ==
    [source_id |-> c.source_id, sequence_number |-> c.sequence_number,
     links |-> c.links]

\* the LSU of a call carries the tag of its payload under its source's key
WellTagged(c) ==
    c.signature = [msg |-> DataOf(c), key |-> PUBLIC_KEYS[c.source_id]]

\* the router stores a sequence number for the source
Stored(id, source_id) == topology[id].seq[source_id] # NoSeq

RECURSIVE SumLog(_, _, _)
SumLog(log, from, to) ==
    IF from > to THEN 0
    ELSE (IF from \in DOMAIN log THEN log[from] ELSE 0) + SumLog(log, from + 1, to)

\* the number of LSUs the router accepted within lsu_window of the present
RecentAccepts(id) == SumLog(accept_log[id], now - lsu_window, now)

\* some destination has an entry in the router's table
HasRoutes(id) == \E t \in Nodes : routing_table[id][t] # NoRoute

\* C1 (freshness): when a router stores sequence number s for source S,
\* process_lsu on an LSU of S with a sequence number <= s returns False,
\* through the freshness return whenever the rate limiter has room and the
\* tag is right, and leaves the router's topology and routing table as
\* they were.
C1_Freshness ==
    [][\A id \in Routers :
          (/\ Called("process_lsu", id)
           /\ Stored(id, out'.source_id)
           /\ out'.sequence_number <= topology[id].seq[out'.source_id])
          => /\ out'.ret = FALSE
             /\ out'.why \in {"Stale", "RateLimited", "InvalidTag"}
             /\ (out'.why = "RateLimited" => RecentAccepts(id) >= lsu_rate_limit)
             /\ (out'.why = "InvalidTag" => ~WellTagged(out'))
             /\ topology'[id] = topology[id]
             /\ routing_table'[id] = routing_table[id]]_vars

\* a stale, well tagged LSU has been turned down by a router that has routes
C1_Witness ==
    /\ out.op = "process_lsu" /\ out.router = "R0" /\ out.why = "Stale"
    /\ out.source_id = "R1"
    /\ out.sequence_number < topology["R0"].seq["R1"]
    /\ HasRoutes("R0")

\* C4 (replacement, not merge): right after a router accepts an LSU of S
\* that supersedes an earlier one, the edges at S in its topology are
\* exactly the links of the new LSU, with the new LSU's costs.
C4_Replacement ==
    [][\A id \in Routers :
          (/\ Called("process_lsu", id)
           /\ out'.ret
           /\ Stored(id, out'.source_id))
          => /\ Neighbours(topology'[id], out'.source_id) = LinkNodes(out'.links)
             /\ \A i \in 1..Len(out'.links) :
                   topology'[id].cost[<<out'.source_id, out'.links[i][1]>>]
                       = out'.links[i][2]]_vars

\* R0 has accepted two LSUs, both of R1; the first one named R2 (which is
\* how R2 came into the topology), the second one does not
C4_Witness ==
    /\ out.op = "process_lsu" /\ out.router = "R0" /\ out.ret
    /\ out.source_id = "R1"
    /\ accept_log["R0"][0] = 2
    /\ ~Stored("R0", "R0") /\ ~Stored("R0", "R2")
    /\ HasNode(topology["R0"], "R2")
    /\ "R2" \notin LinkNodes(out.links)
    /\ out.links # <<>>

\* C5 (attribution invariant): for every source S a router stores a
\* sequence number for, the edges at S in the router's topology are the
\* links of the LSU of S it accepted last.
C5_Attribution ==
    \A id \in Routers : \A s \in Nodes :
        Stored(id, s) => Neighbours(topology[id], s) = LinkNodes(last_links[id][s])

\* C6 (stored sequence numbers only grow): the sequence number a router
\* stores for a source never decreases and is never forgotten; it changes
\* only when process_lsu accepts an LSU of that source, to that LSU's
\* number, which is greater than the one stored before.
C6_Monotonic ==
    [][\A id \in Routers : \A s \in Nodes :
          LET old == topology[id].seq[s]
              new == topology'[id].seq[s]
          IN  /\ old # NoSeq => new # NoSeq /\ new >= old
              /\ new # old =>
                    /\ Called("process_lsu", id)
                    /\ out'.ret
                    /\ out'.source_id = s
                    /\ new = out'.sequence_number
                    /\ new > stored_seq(topology[id], s) \/ ~HasNode(topology[id], s)]_vars

\* a router has replaced a stored sequence number by a higher one
C6_Witness ==
    /\ out.op = "process_lsu" /\ out.router = "R0" /\ out.ret
    /\ out.sequence_number = 2
    /\ topology["R0"].seq[out.source_id] = 2
    /\ accept_log["R0"][0] = 2
    /\ \A s \in Nodes \ {out.source_id} : ~Stored("R0", s)

\* C7 (origination): a router starts with sequence number 0; create_lsu
\* raises the router's own counter by one and returns an LSU of that
\* router carrying the new value; it changes no topology, rate limiter or
\* routing table.
C7_Origination ==
    /\ \A id \in Routers : sequence_number[id] = 0
    /\ [][\A id \in Routers :
             /\ Called("create_lsu", id) =>
                   /\ sequence_number'[id] = sequence_number[id] + 1
                   /\ lsu'.data.source_id = id
                   /\ lsu'.data.sequence_number = sequence_number'[id]
                   /\ out'.sequence_number = sequence_number'[id]
                   /\ \A r \in Routers \ {id} : sequence_number'[r] = sequence_number[r]
                   /\ topology' = topology
                   /\ lsu_timestamps' = lsu_timestamps
                   /\ routing_table' = routing_table
             /\ sequence_number'[id] # sequence_number[id] => Called("create_lsu", id)]_vars

\* a router with a topology, timestamps and routes has originated its
\* second LSU
C7_Witness ==
    /\ out.op = "create_lsu" /\ out.router = "R0"
    /\ out.sequence_number = 2
    /\ lsu.data.sequence_number = 2
    /\ lsu_timestamps["R0"] # <<>>
    /\ HasRoutes("R0")

(***************************************************************************)
(* Properties of the rate limiter.                                         *)
(***************************************************************************)
\* C2 (rate limiting): once a router has accepted lsu_rate_limit LSUs
\* within lsu_window of the present, process_lsu turns the next LSU down
\* at the rate-limit return, whatever its tag and sequence number, and
\* accepts nothing.
C2_RateLimited ==
    [][\A id \in Routers :
          (Called("process_lsu", id) /\ RecentAccepts(id) >= lsu_rate_limit)
          => /\ out'.ret = FALSE
             /\ out'.why = "RateLimited"
             /\ topology'[id] = topology[id]
             /\ accept_log'[id] = accept_log[id]]_vars

\* a fresh, well tagged LSU has been turned down by the rate limiter
C2_Witness ==
    /\ out.op = "process_lsu" /\ out.router = "R0" /\ out.why = "RateLimited"
    /\ WellTagged(out)
    /\ out.sequence_number > stored_seq(topology["R0"], out.source_id)
    /\ RecentAccepts("R0") >= lsu_rate_limit

\* C3 (rate-limiter bound): a router accepts at most lsu_rate_limit LSUs
\* in any interval of length lsu_window, and its list of acceptance
\* timestamps never holds more than lsu_rate_limit entries.
C3_RateBound ==
    \A id \in Routers :
        /\ \A a \in 0..MaxTime :
              SumLog(accept_log[id], a, a + lsu_window) <= lsu_rate_limit
        /\ Len(lsu_timestamps[id]) <= lsu_rate_limit

\* the limiter was full, the window passed, and the router accepted again
C3_Witness ==
    /\ accept_log["R0"][0] = lsu_rate_limit
    /\ now > lsu_window
    /\ accept_log["R0"][now] > 0
    /\ out.op = "process_lsu" /\ out.ret

(***************************************************************************)
(* Properties of the route computation.                                    *)
(***************************************************************************)
\* the edges of a path, as unordered pairs
UEdges(path) == {{path[i], path[i + 1]} : i \in 1..(Len(path) - 1)}

\* the simple paths of the graph from source to target
SimplePaths(g, source, target) ==
    {p \in UNION {[1..n -> Nodes] : n \in 2..Cardinality(Nodes)} :
        /\ p[1] = source /\ p[Len(p)] = target
        /\ \A i, j \in 1..Len(p) : i # j => p[i] # p[j]
        /\ \A i \in 1..(Len(p) - 1) : HasEdge(g, p[i], p[i + 1])}

RECURSIVE PathCost(_, _)
PathCost(g, p) ==
    IF Len(p) < 2 THEN 0 ELSE g.cost[<<p[1], p[2]>>] + PathCost(g, Tail(p))

\* two different cheapest paths lead from source to target
Tie(g, source, target) ==
    \E p, q \in SimplePaths(g, source, target) :
        /\ p # q
        /\ PathCost(g, p) = PathCost(g, q)
        /\ \A r \in SimplePaths(g, source, target) : PathCost(g, p) <= PathCost(g, r)

\* C8 (backup disjointness): in every routing table, a backup path shares
\* no edge with the primary path of its entry.
C8_BackupDisjoint ==
    \A id \in Routers : \A t \in Nodes :
        LET e == routing_table[id][t]
        IN  (e # NoRoute /\ e.backup_path # <<>>)
                => UEdges(e.path) \cap UEdges(e.backup_path) = {}

\* some entry has a primary path and a backup path of two or more hops
C8_Witness ==
    \E t \in Nodes :
        LET e == routing_table["R0"][t]
        IN  /\ e # NoRoute
            /\ Len(e.path) >= 3
            /\ Len(e.backup_path) >= 3

C10_ScenarioA ==
    drv.pc = "done" =>
        routing_table["R0"]["R2"] =
            [next_hop |-> "R1", total_cost |-> 2, path |-> <<"R0", "R1", "R2">>,
             backup_path |-> <<>>, backup_cost |-> 0]

\* the initial convergence has run its three rounds, R0 having accepted
\* the two LSUs of each round
C10_Witness ==
    /\ drv.pc = "done"
    /\ drv.round = 3
    /\ topology["R0"].seq["R1"] = 3 /\ topology["R0"].seq["R2"] = 3
    /\ routing_table["R0"]["R2"] # NoRoute

\* the cheapest cost of a path from source to target, for a reachable target
MinCost(g, source, target) ==
    CHOOSE c \in {PathCost(g, p) : p \in SimplePaths(g, source, target)} :
        \A q \in SimplePaths(g, source, target) : c <= PathCost(g, q)

\* run_protocol_simulation is over, the failure edge was a link of the
\* primary path R0 had to target before, and R0's topology has lost it
FailedOnPrimary(target) ==
    /\ drv.pc = "done"
    /\ drv.initial[target] # NoRoute
    /\ {drv.failed[1], drv.failed[2]} \in UEdges(drv.initial[target].path)
    /\ ~HasEdge(topology["R0"], drv.failed[1], drv.failed[2])

C12_Isolation ==
    [][\A id \in Routers :
          (Called("process_lsu", id) \/ Called("calculate_routes", id))
          => /\ \A r \in Routers \ {id} :
                   /\ topology'[r] = topology[r]
                   /\ lsu_timestamps'[r] = lsu_timestamps[r]
                   /\ routing_table'[r] = routing_table[r]
             /\ sequence_number' = sequence_number
             /\ G' = G]_vars

\* a router has turned down an LSU with a wrong tag while another router
\* holds a topology, a timestamp and routes
C12_Witness ==
    /\ out.op = "process_lsu" /\ out.why = "InvalidTag"
    /\ \E r \in Routers \ {out.router} :
          /\ topology[r] # EmptyGraph
          /\ lsu_timestamps[r] # <<>>
          /\ HasRoutes(r)
          /\ sequence_number[r] > 0

\* the number of times t occurs in the timestamp list
Stamps(ts, t) == Cardinality({i \in 1..Len(ts) : ts[i] = t})

\* C13 (rejection without state change): when process_lsu returns through
\* the rate-limit return or the invalid-tag return, the router's topology
\* and routing table are as before and no timestamp has been added to its
\* rate limiter; an LSU whose tag is not the tag of its payload under its
\* source's key is never accepted, whatever its sequence number.
C13_Rejection ==
    [][\A id \in Routers :
          Called("process_lsu", id) =>
             /\ out'.why \in {"RateLimited", "InvalidTag"} =>
                   /\ out'.ret = FALSE
                   /\ topology'[id] = topology[id]
                   /\ routing_table'[id] = routing_table[id]
                   /\ \A t \in 0..MaxTime :
                         Stamps(lsu_timestamps'[id], t) <= Stamps(lsu_timestamps[id], t)
                   /\ accept_log'[id] = accept_log[id]
             /\ ~WellTagged(out') => out'.ret = FALSE]_vars

\* a router with routes and room for one more LSU in its rate limiter has
\* turned down an LSU whose sequence number was raised in transit
C13_Witness ==
    /\ out.op = "process_lsu" /\ out.router = "R0" /\ out.why = "InvalidTag"
    /\ out.sequence_number > stored_seq(topology["R0"], out.source_id)
    /\ HasRoutes("R0")
    /\ Len(lsu_timestamps["R0"]) = lsu_rate_limit - 1
    /\ RecentAccepts("R0") = lsu_rate_limit - 1

(***************************************************************************)
(* Properties of the routing table.                                        *)
(***************************************************************************)
\* the nodes reached from the nodes of S in at most n steps
RECURSIVE Reach(_, _, _)
Reach(g, S, n) ==
    IF n = 0 THEN S
    ELSE Reach(g, S \cup UNION {Neighbours(g, x) : x \in S}, n - 1)

\* target is a node of the graph, other than source, that a path of the
\* graph leads to from source
Reachable(g, source, target) ==
    /\ target # source
    /\ HasNode(g, target)
    /\ target \in Reach(g, {source}, Cardinality(Nodes))

\* C14 (primary path correctness): every entry calculate_routes stores at
\* a router for a destination has a primary path that starts at the router,
\* ends at the destination and follows edges of the router's topology; its
\* total cost is the sum of the costs of these edges and no path of the
\* topology to the destination costs less; its next hop is the second
\* node of the path.
C14_PrimaryPath ==
    [][\A id \in Routers : Called("calculate_routes", id) =>
          \A t \in Nodes :
              LET e == routing_table'[id][t]
                  g == topology'[id]
              IN  e # NoRoute =>
                    /\ Len(e.path) >= 2
                    /\ e.path[1] = id /\ e.path[Len(e.path)] = t
                    /\ \A i \in 1..(Len(e.path) - 1) : HasEdge(g, e.path[i], e.path[i + 1])
                    /\ e.total_cost = PathCost(g, e.path)
                    /\ \A q \in SimplePaths(g, id, t) : e.total_cost <= PathCost(g, q)
                    /\ e.next_hop = e.path[2]]_vars

\* calculate_routes has stored a primary path of two links, the cheaper
\* of two such paths
C14_Witness ==
    /\ out.op = "calculate_routes" /\ out.router = "R0"
    /\ \E t \in Nodes :
          /\ routing_table["R0"][t] # NoRoute
          /\ Len(routing_table["R0"][t].path) = 3
          /\ \E q \in SimplePaths(topology["R0"], "R0", t) :
                /\ Len(q) = 3
                /\ PathCost(topology["R0"], q) > routing_table["R0"][t].total_cost

\* C15 (table membership): after calculate_routes at a router, a
\* destination has an entry exactly when it is a node of the router's
\* topology, other than the router, that a path of the topology leads to;
\* a destination that had an entry and is not reached any more has none.
C15_Membership ==
    [][\A id \in Routers : Called("calculate_routes", id) =>
          \A t \in Nodes :
              routing_table'[id][t] # NoRoute <=> Reachable(topology'[id], id, t)]_vars

\* after the failure R0 has recomputed, and a destination it had an entry
\* for before, still a node of its topology, has none
C15_Witness ==
    /\ out.op = "calculate_routes" /\ out.router = "R0"
    /\ drv.phase = "failure"
    /\ \E t \in Nodes :
          /\ drv.initial[t] # NoRoute
          /\ HasNode(topology["R0"], t)
          /\ routing_table["R0"][t] = NoRoute

(***************************************************************************)
(* Properties of the drivers.                                              *)
(***************************************************************************)
\* C16 (recomputation ordering, as claimed): in every round of the driver
\* a router's calculate_routes is called only if the router accepted an
\* LSU in the round, at most once in the round, and only once the router
\* has processed every LSU of the round.
C16_Ordering ==
    [][\A id \in Routers : Called("calculate_routes", id) =>
          /\ drv.accepted[id] >= 1
          /\ drv.computed[id] = 0
          /\ drv.k = Len(drv.lsus)]_vars

\* C16 (recomputation ordering, amended): a router's calculate_routes is
\* called only if the router accepted an LSU in the round; in the
\* re-convergence rounds it is called at most once in the round, once the
\* router has processed every LSU of the round; in the initial convergence
\* it is called right after each LSU the router accepts, once per accepted
\* LSU.
C16_Ordering_Amended ==
    [][\A id \in Routers : Called("calculate_routes", id) =>
          /\ drv.accepted[id] >= 1
          /\ IF drv.phase = "failure"
             THEN /\ drv.computed[id] = 0
                  /\ drv.k = Len(drv.lsus)
             ELSE /\ out.op = "process_lsu" /\ out.router = id /\ out.ret
                  /\ drv.computed[id] = drv.accepted[id] - 1]_vars

\* in a re-convergence round a router that accepted both LSUs has
\* recomputed once
C16_Witness ==
    /\ out.op = "calculate_routes"
    /\ drv.phase = "failure"
    /\ drv.accepted[out.router] = 2
    /\ drv.computed[out.router] = 1

\* the driver stands at the end of a round (or before the first one)
RoundOver == drv.pc \in {"fail", "done"} \/ (drv.pc = "create" /\ drv.i = 1)

\* the table calculate_routes leaves from the router's present topology,
\* for a router whose table was empty as long as it was not a node of it
Derived(id) ==
    IF HasNode(topology[id], id) THEN routes_of(topology[id], id)
    ELSE [t \in Nodes |-> NoRoute]

\* C17 (the routing table is derived state): at the end of every round of
\* the driver, initial convergence and re-convergence, every router's
\* routing table is the table calculate_routes yields from the router's
\* topology; and a routing table changes only in a calculate_routes call
\* on its router.
C17_Derived ==
    /\ [](RoundOver => \A id \in Routers : routing_table[id] = Derived(id))
    /\ [][\A id \in Routers :
             routing_table'[id] # routing_table[id] => Called("calculate_routes", id)]_vars

\* the re-convergence is over, every router has routes, and R0's table is
\* not the one it had before the failure
C17_Witness ==
    /\ drv.pc = "done"
    /\ \A id \in Routers : HasRoutes(id)
    /\ routing_table["R0"] # drv.initial
    /\ ~HasEdge(topology["R0"], drv.failed[1], drv.failed[2])

\* the number of LSUs the router has accepted so far
Accepts(id) == SumLog(accept_log[id], 0, MaxTime)

\* C18 (router activation, as claimed): a router is a node of its own
\* topology exactly when it has originated an LSU or accepted one.
C18_Activation ==
    \A id \in Routers :
        HasNode(topology[id], id) <=> (sequence_number[id] > 0 \/ Accepts(id) > 0)

\* C18 (router activation, amended): a router starts outside its own
\* topology and enters it exactly when it accepts an LSU of its own or an
\* LSU that lists it as a neighbour, never by originating; until then
\* calculate_routes returns without computing, and from then on it
\* computes.
C18_Activation_Amended ==
    /\ \A id \in Routers : ~HasNode(topology[id], id)
    /\ [][\A id \in Routers :
             LET named == /\ Called("process_lsu", id)
                          /\ out'.ret
                          /\ out'.source_id = id \/ id \in LinkNodes(out'.links)
             IN  /\ HasNode(topology'[id], id) <=> (HasNode(topology[id], id) \/ named)
                 /\ Called("calculate_routes", id) =>
                       /\ out'.ret <=> HasNode(topology[id], id)
                       /\ ~HasNode(topology[id], id) =>
                             routing_table'[id] = routing_table[id]
                       /\ HasNode(topology[id], id) =>
                             routing_table'[id] = routes_of(topology[id], id)]_vars

\* a router that has originated an LSU and accepted one is not a node of
\* its own topology, and calculate_routes has returned without computing
C18_Witness ==
    /\ out.op = "calculate_routes" /\ out.router = "R0" /\ ~out.ret
    /\ sequence_number["R0"] > 0
    /\ Accepts("R0") > 0
    /\ ~HasNode(topology["R0"], "R0")

\* C19 (failure propagation): once the failure edge has been removed and
\* the re-convergence rounds are over, whatever time passed between the
\* rounds, no router's topology holds the edge and no primary path of any
\* routing table uses it.
C19_FailurePropagation ==
    (drv.pc = "done" /\ drv.phase = "failure") =>
        \A id \in Routers :
            /\ ~HasEdge(topology[id], drv.failed[1], drv.failed[2])
            /\ \A t \in Nodes :
                  {drv.failed[1], drv.failed[2]} \notin UEdges(routing_table[id][t].path)

\* C20 (initial convergence): once the initial convergence of the driver
\* is over, whatever the number of routers and whatever time passed
\* between the rounds, the edges of every router's topology are the edges
\* of the base topology.
C20_InitialConvergence ==
    (drv.phase = "initial" /\ drv.pc \in {"fail", "done"}) =>
        \A id \in SeqToSet(G.node) : EdgeSet(topology[id]) = EdgeSet(G)

====
